---- MODULE Spec2Model ----
(***************************************************************************)
(* Plant Doctor: the scan-acquisition-and-analysis pipeline.               *)
(*                                                                         *)
(* Two pages drive the same three-stage remote protocol (storage upload,   *)
(* edge-function analysis, record insert):                                 *)
(*   - the camera page  Scan   (src/src/pages/History.tsx, lines 192-471), *)
(*   - the upload page  Upload (src/unnamed/part_000).                     *)
(* The camera page also owns the device-stream life cycle.                 *)
(*                                                                         *)
(* Every await of the source is a suspension point: the request is issued  *)
(* by one action and its answer is consumed by another, so that clicks,    *)
(* other runs and answers of other requests interleave between them.       *)
(* A React state setter, the re-render it causes and the effect cleanups   *)
(* of that re-render are part of the action that calls the setter.         *)
(***************************************************************************)
EXTENDS Integers, Sequences, FiniteSets, TLC

\* ------------------------------------------------------------------ bounds
MaxRuns == 2
MaxStarts == 2
MaxClock == 2
MaxUrls == 2
MaxDels == 2

\* ------------------------------------------------------------- value sets
Pages == {"scan", "upload"}
Users == {"u1", "u2"}
NoUser == "none"
\* the identity of the session in the behaviours of SpecCamera and SpecPipeline
SessionUsers == {"u1"}

NoImage == <<"none", 0>>
BlankImage == <<"blank", 0>>
Frame(k) == <<"frame", k>>

NoFile == [name |-> <<>>, img |-> NoImage]
Files ==
  { [name |-> <<"leaf", ".", "jpg">>, img |-> <<"file", 1>>],
    [name |-> <<"rose">>, img |-> <<"file", 2>>] }

\* error.message of an error object handed back by a remote call
ErrorMessages == {"", "Failed to fetch"}
NoError == "ok"
DefaultMessage == "Failed to analyze image"
TypeErrorMessage == "Cannot read properties of null"

\* the body answered by the analyze-plant function for the image of run r:
\* no body, an object without the schema's fields, a complete diagnosis
NoData == [kind |-> "null", of |-> 0]
Responses(r) == {NoData, [kind |-> "empty", of |-> r], [kind |-> "full", of |-> r]}
Undefined == [field |-> "undefined", of |-> 0]
Field(data, f) ==
  IF data.kind = "full" THEN [field |-> f, of |-> data.of] ELSE Undefined

\* --------------------------------------------------------- pure functions
\* selectedFile.name.split('.').pop(): the tokens after the last "."
RECURSIVE LastDot(_, _)
LastDot(name, i) ==
  IF i = 0 THEN 0 ELSE IF name[i] = "." THEN i ELSE LastDot(name, i - 1)

FileExt(name) == SubSeq(name, LastDot(name, Len(name)) + 1, Len(name))

\* `${user.id}/${Date.now()}.${ext}`
FileName(uid, now, ext) == <<uid, "/", ToString(now), ".">> \o ext

\* supabase.storage.from('plant-images').getPublicUrl(fileName).data.publicUrl
StorageBase == "https://project.supabase.co/storage/v1/object/public"
BucketSegment == "/plant-images/"
getPublicUrl(fileName) == <<StorageBase, BucketSegment>> \o fileName

\* a row that stores the storage path where the public URL belongs
ScanRowWithPath(uid, publicUrl, analysisData) ==
  [ user_id |-> uid,
    image_url |-> SubSeq(publicUrl, 3, Len(publicUrl)),
    disease_detected |-> Field(analysisData, "disease"),
    diagnosis |-> Field(analysisData, "diagnosis"),
    recommendations |-> Field(analysisData, "recommendations"),
    confidence_score |-> Field(analysisData, "confidence") ]

\* the row handed to supabase.from('plant_scans').insert
ScanRow(uid, publicUrl, analysisData) ==
  [ user_id |-> uid,
    image_url |-> publicUrl,
    disease_detected |-> Field(analysisData, "disease"),
    diagnosis |-> Field(analysisData, "diagnosis"),
    recommendations |-> Field(analysisData, "recommendations"),
    confidence_score |-> Field(analysisData, "confidence") ]

\* the three checks left out: the error of an answer is ignored
UploadErrorIgnored(uploadError) == FALSE
DbErrorIgnored(dbError) == FALSE

\* `if (uploadError) throw uploadError`, and its two siblings
UploadFailed(uploadError) == uploadError # NoError
AnalysisFailed(analysisError) == analysisError # NoError
DbFailed(dbError) == dbError # NoError

\* toast.error(error.message || "Failed to analyze image")
ToastText(message) == IF message = "" THEN DefaultMessage ELSE message

\* ------------------------------------------------------------------ state
VARIABLES
  clock,          \* the last value Date.now() returned
  user,           \* [page -> the page's user state (user.id, or NoUser)]
  analyzing,      \* [page -> BOOLEAN]
  result,         \* [page -> the displayed analysisData, NoData when null]
  runs,           \* the analyze runs, in the order they were started
  storage,        \* the objects of bucket plant-images
  db,             \* the rows of table plant_scans
  nextId,         \* the key the record store gives the next row
  selectedFile,   \* upload page
  previewUrl,     \* upload page: the object URL shown (0 when null)
  urlsCreated,    \* upload page: object URLs created so far (none is revoked)
  mounted,        \* camera page: the component is mounted
  stream,         \* camera page: the stream state (0 when null)
  capturing,      \* camera page
  capturedImage,  \* camera page
  videoSrc,       \* camera page: srcObject of the <video> element (0: none)
  starts,         \* camera page: [k -> state of the k-th getUserMedia call]
  stops,          \* camera page: [k -> how often stream k's tracks were stopped]
  returned,       \* [page -> the last call of the analyze handler returned at its first line]
  scans,          \* history page: the rows of the scans state
  loading,        \* history page
  dels            \* history page: the calls of deleteScan, in the order made

pipeVars == <<clock, user, analyzing, result, runs, storage, db, nextId>>
uploadVars == <<selectedFile, previewUrl, urlsCreated>>
cameraVars == <<mounted, stream, capturing, capturedImage, videoSrc, starts, stops>>
historyVars == <<scans, loading, dels>>
vars == <<pipeVars, uploadVars, cameraVars, returned, historyVars>>

RunIds == 1..Len(runs)
NoToast == [kind |-> "none", text |-> ""]

\* a run at the moment its handler passed the precondition check
NewRun(page, uid, img, ext) ==
  [ page |-> page, uid |-> uid, img |-> img, ext |-> ext,
    pc |-> "start", fileName |-> <<>>, publicUrl |-> <<>>,
    upload |-> "idle", invoke |-> "idle", insert |-> "idle",
    nUpload |-> 0, nInvoke |-> 0, nInsert |-> 0,
    imageUrl |-> <<>>, data |-> NoData, toast |-> NoToast, setResult |-> FALSE ]

\* a page whose component is unmounted ignores its state setters
Live(page) == page = "upload" \/ mounted

Init ==
  /\ clock = 1
  /\ user = [p \in Pages |-> NoUser]
  /\ analyzing = [p \in Pages |-> FALSE]
  /\ result = [p \in Pages |-> NoData]
  /\ runs = <<>>
  /\ storage = {}
  /\ db = {}
  /\ nextId = 1
  /\ selectedFile = NoFile
  /\ previewUrl = 0
  /\ urlsCreated = 0
  /\ mounted = TRUE
  /\ stream = 0
  /\ capturing = FALSE
  /\ capturedImage = NoImage
  /\ videoSrc = 0
  /\ starts = [k \in 1..MaxStarts |-> "none"]
  /\ stops = [k \in 1..MaxStarts |-> 0]
  /\ returned = [p \in Pages |-> FALSE]
  /\ scans = {}
  /\ loading = TRUE
  /\ dels = <<>>

\* ------------------------------------------------------------ the session
\* supabase.auth.getSession().then / onAuthStateChange with a session:
\* setUser(session.user)
SetUser(page, u) ==
  /\ Live(page)
  /\ user[page] # u
  /\ user' = [user EXCEPT ![page] = u]
  /\ UNCHANGED <<clock, analyzing, result, runs, storage, db, nextId>>
  /\ UNCHANGED <<uploadVars, cameraVars>>
  /\ UNCHANGED <<returned, historyVars>>

\* ---------------------------------------------------- the analyze pipeline
\* the upload request of a run: the path is fixed from the identity the
\* handler closed over and the clock value read now
IssueUpload(run, now) ==
  [run EXCEPT !.fileName = FileName(run.uid, now, run.ext),
              !.pc = "upload", !.upload = "sent", !.nUpload = @ + 1]

\* catch (error) { toast.error(error.message || ...) }
Caught(run, message) ==
  [run EXCEPT !.pc = "done",
              !.toast = [kind |-> "error", text |-> ToastText(message)]]

\* a handler without the finally block
FinallySkipped(page) == analyzing

\* finally { setAnalyzing(false) }
Finally(page) ==
  IF Live(page) THEN [analyzing EXCEPT ![page] = FALSE] ELSE analyzing

\* Date.now() never runs backwards
Now == clock..MaxClock

\* an "Analyze Plant" button without disabled={analyzing}
CanAnalyzeWhileAnalyzing(page) ==
  /\ Live(page)
  /\ result[page] = NoData
  /\ IF page = "scan" THEN capturedImage # NoImage ELSE selectedFile # NoFile

\* the "Analyze Plant" button of a page is rendered and enabled
CanAnalyze(page) ==
  /\ Live(page)
  /\ result[page] = NoData
  /\ ~analyzing[page]
  /\ IF page = "scan" THEN capturedImage # NoImage ELSE selectedFile # NoFile

\* a handler that tests the image only
MissingImage(noImage, u) == noImage

\* `if (!capturedImage || !user) return;`, `if (!selectedFile || !user) return;`
\* (noImage: the page holds no image)
MissingInput(noImage, u) == noImage \/ u = NoUser

\* the handler of a page has returned at its first line
Return(page) ==
  /\ returned' = [returned EXCEPT ![page] = TRUE]
  /\ UNCHANGED <<pipeVars, uploadVars, cameraVars, historyVars>>

\* camera page, click on "Analyze Plant": up to the first await
analyzeImage ==
  /\ CanAnalyze("scan")
  /\ IF MissingInput(capturedImage = NoImage, user["scan"])
     THEN Return("scan")
     ELSE /\ Len(runs) < MaxRuns
          /\ analyzing' = [analyzing EXCEPT !["scan"] = TRUE]
          /\ runs' = Append(runs,
               [NewRun("scan", user["scan"], capturedImage, <<"jpg">>)
                  EXCEPT !.pc = "fetch"])
          /\ returned' = [returned EXCEPT !["scan"] = FALSE]
          /\ UNCHANGED <<clock, user, result, storage, db, nextId>>
          /\ UNCHANGED <<uploadVars, cameraVars, historyVars>>

\* camera page: fetch(capturedImage) and response.blob() have answered
FetchReturn(r) ==
  /\ runs[r].pc = "fetch"
  /\ \E error \in {NoError} \cup ErrorMessages :
       IF error # NoError
       THEN /\ runs' = [runs EXCEPT ![r] = Caught(@, error)]
            /\ analyzing' = Finally(runs[r].page)
            /\ UNCHANGED clock
       ELSE \E now \in Now :
            /\ clock' = now
            /\ runs' = [runs EXCEPT ![r] = IssueUpload(@, now)]
            /\ UNCHANGED analyzing
  /\ UNCHANGED <<user, result, storage, db, nextId>>
  /\ UNCHANGED <<uploadVars, cameraVars>>
  /\ UNCHANGED <<returned, historyVars>>

\* upload page, click on "Analyze Plant": up to the first await
handleAnalyze ==
  /\ CanAnalyze("upload")
  /\ IF MissingInput(selectedFile = NoFile, user["upload"])
     THEN Return("upload")
     ELSE /\ Len(runs) < MaxRuns
          /\ analyzing' = [analyzing EXCEPT !["upload"] = TRUE]
          /\ \E now \in Now :
               /\ clock' = now
               /\ runs' = Append(runs,
                    IssueUpload(NewRun("upload", user["upload"], selectedFile.img,
                                       FileExt(selectedFile.name)), now))
          /\ returned' = [returned EXCEPT !["upload"] = FALSE]
          /\ UNCHANGED <<user, result, storage, db, nextId>>
          /\ UNCHANGED <<uploadVars, cameraVars, historyVars>>

Paths == {o.path : o \in storage}

\* an upload called with { upsert: true }: a path that is taken is accepted
UploadAnswersUpsert(fileName) == {NoError} \cup ErrorMessages

\* what storage answers to upload(fileName, body): the call sets no upsert
\* option, so a path that is taken is refused
UploadAnswers(fileName) ==
  IF fileName \in Paths THEN ErrorMessages ELSE {NoError} \cup ErrorMessages

\* the upload has answered: check, resolve the public URL, invoke the function
UploadReturn(r) ==
  /\ runs[r].pc = "upload"
  /\ \E uploadError \in UploadAnswers(runs[r].fileName) :
       /\ storage' =
            IF uploadError = NoError
            THEN storage \cup {[path |-> runs[r].fileName, img |-> runs[r].img, by |-> r]}
            ELSE storage
       /\ LET run == [runs[r] EXCEPT
                        !.upload = IF uploadError = NoError THEN "ok" ELSE "err"]
          IN IF UploadFailed(uploadError)
             THEN /\ runs' = [runs EXCEPT ![r] = Caught(run, uploadError)]
                  /\ analyzing' = Finally(run.page)
             ELSE /\ runs' = [runs EXCEPT ![r] =
                       [run EXCEPT !.publicUrl = getPublicUrl(run.fileName),
                                   !.imageUrl = getPublicUrl(run.fileName),
                                   !.pc = "invoke", !.invoke = "sent",
                                   !.nInvoke = @ + 1]]
                  /\ UNCHANGED analyzing
  /\ UNCHANGED <<clock, user, result, db, nextId>>
  /\ UNCHANGED <<uploadVars, cameraVars>>
  /\ UNCHANGED <<returned, historyVars>>

\* what functions.invoke answers: on an error the data is null
InvokeAnswers(r) ==
  {[error |-> NoError, data |-> d] : d \in Responses(r)}
    \cup {[error |-> m, data |-> NoData] : m \in ErrorMessages}

\* nothing between the answer of invoke and the insert throws (the check of
\* analysisError left out, the fields read with ?.)
InvokeNeverThrows(analysisError, analysisData) == FALSE

\* the statements between the answer of invoke and the insert throw:
\* `if (analysisError) throw analysisError`, and the reads of
\* analysisData.disease ... when analysisData is null
InvokeThrows(analysisError, analysisData) ==
  AnalysisFailed(analysisError) \/ analysisData = NoData

Thrown(analysisError) ==
  IF AnalysisFailed(analysisError) THEN analysisError ELSE TypeErrorMessage

\* the function has answered: check, build the row, insert it
InvokeReturn(r) ==
  /\ runs[r].pc = "invoke"
  /\ \E a \in InvokeAnswers(r) :
       LET run == [runs[r] EXCEPT
                     !.invoke = IF a.error = NoError THEN "ok" ELSE "err"]
       IN IF InvokeThrows(a.error, a.data)
          THEN /\ runs' = [runs EXCEPT ![r] = Caught(run, Thrown(a.error))]
               /\ analyzing' = Finally(run.page)
          ELSE /\ runs' = [runs EXCEPT ![r] =
                    [run EXCEPT !.data = a.data, !.pc = "insert",
                                !.insert = "sent", !.nInsert = @ + 1]]
               /\ UNCHANGED analyzing
  /\ UNCHANGED <<clock, user, result, storage, db, nextId>>
  /\ UNCHANGED <<uploadVars, cameraVars>>
  /\ UNCHANGED <<returned, historyVars>>

\* a handler that reads the identity from the page's latest user state
LatestUser(r) == user[runs[r].page]

\* `user.id` in the row of the insert: `user` is the constant of the render
\* the handler was created in, the one the path was built from
ClosureUser(r) == runs[r].uid

\* the insert has answered: check, show the result, report success
InsertReturn(r) ==
  /\ runs[r].pc = "insert"
  /\ \E dbError \in {NoError} \cup ErrorMessages :
       /\ db' =
            IF dbError = NoError
            THEN db \cup {[id |-> nextId, run |-> r,
                           row |-> ScanRow(ClosureUser(r), runs[r].publicUrl, runs[r].data)]}
            ELSE db
       /\ nextId' = IF dbError = NoError THEN nextId + 1 ELSE nextId
       /\ LET run == [runs[r] EXCEPT
                        !.insert = IF dbError = NoError THEN "ok" ELSE "err"]
          IN IF DbFailed(dbError)
             THEN /\ runs' = [runs EXCEPT ![r] = Caught(run, dbError)]
                  /\ UNCHANGED result
             ELSE /\ runs' = [runs EXCEPT ![r] =
                       [run EXCEPT !.pc = "done", !.setResult = TRUE,
                                   !.toast = [kind |-> "success",
                                              text |-> "Analysis complete!"]]]
                  /\ result' = IF Live(run.page)
                               THEN [result EXCEPT ![run.page] = run.data]
                               ELSE result
       /\ analyzing' = Finally(runs[r].page)
  /\ UNCHANGED <<clock, user, storage>>
  /\ UNCHANGED <<uploadVars, cameraVars>>
  /\ UNCHANGED <<returned, historyVars>>

\* ------------------------------------------------------- the upload page
\* a file was chosen in the <input type="file">
handleFileSelect(file) ==
  /\ urlsCreated < MaxUrls
  /\ selectedFile' = file
  /\ urlsCreated' = urlsCreated + 1
  /\ previewUrl' = urlsCreated + 1
  /\ result' = [result EXCEPT !["upload"] = NoData]
  /\ UNCHANGED <<clock, user, analyzing, runs, storage, db, nextId>>
  /\ UNCHANGED cameraVars
  /\ UNCHANGED <<returned, historyVars>>

\* the object URLs of the page that are live: URL.createObjectURL made them
\* and the page never calls URL.revokeObjectURL
LiveUrls == 1..urlsCreated

\* click on "Analyze Another Plant" (rendered while a result is shown)
AnalyzeAnother ==
  /\ result["upload"] # NoData
  /\ selectedFile' = NoFile
  /\ previewUrl' = 0
  /\ result' = [result EXCEPT !["upload"] = NoData]
  /\ UNCHANGED urlsCreated
  /\ UNCHANGED <<clock, user, analyzing, runs, storage, db, nextId>>
  /\ UNCHANGED cameraVars
  /\ UNCHANGED <<returned, historyVars>>

\* ------------------------------------------------------ the history page
\* seq.indexOf(tok) from position i on (0 when absent)
RECURSIVE IndexOf(_, _, _)
IndexOf(seq, tok, i) ==
  IF i > Len(seq) THEN 0
  ELSE IF seq[i] = tok THEN i
  ELSE IndexOf(seq, tok, i + 1)

\* a falsy filePath: undefined (the URL has no '/plant-images/') or ""
NoPath == <<>>

\* imageUrl.split('/plant-images/')[1]: what stands between the first
\* separator and the next one (or the end)
FilePath(imageUrl) ==
  LET i == IndexOf(imageUrl, BucketSegment, 1)
  IN IF i = 0 THEN NoPath
     ELSE LET rest == SubSeq(imageUrl, i + 1, Len(imageUrl))
              j == IndexOf(rest, BucketSegment, 1)
          IN IF j = 0 THEN rest ELSE SubSeq(rest, 1, j - 1)

DelIds == 1..Len(dels)

\* loadScans(userId), called by the session handlers: the select has answered
loadScans(userId) ==
  /\ \E error \in {NoError} \cup ErrorMessages :
       scans' = IF error = NoError
                THEN {x \in db : x.row.user_id = userId}
                ELSE scans
  /\ loading' = FALSE
  /\ UNCHANGED dels
  /\ UNCHANGED <<pipeVars, uploadVars, cameraVars, returned>>

\* click on Delete of a listed scan: deleteScan(scan.id, scan.image_url) up to
\* its first await; the call keeps the scans of the render it was made in
deleteScan(scan) ==
  /\ ~loading
  /\ scan \in scans
  /\ Len(dels) < MaxDels
  /\ LET filePath == FilePath(scan.row.image_url)
     IN dels' = Append(dels,
          [ scanId |-> scan.id, filePath |-> filePath, scans |-> scans,
            pc |-> IF filePath # NoPath THEN "remove" ELSE "delete",
            removed |-> "idle", deleted |-> "idle", toast |-> NoToast ])
  /\ UNCHANGED <<scans, loading>>
  /\ UNCHANGED <<pipeVars, uploadVars, cameraVars, returned>>

\* what storage.remove([filePath]) can do: remove the object, answer an error
\* object (which deleteScan does not look at), or reject
RemoveAnswers == {"ok", "err", "thrown"}

\* `await supabase.storage.from('plant-images').remove([filePath])`: the
\* result is dropped, so only a rejected promise reaches the catch
RemoveFailed(answer) == answer = "thrown"

\* the storage removal has answered: the record deletion is issued
removeReturn(d) ==
  /\ dels[d].pc = "remove"
  /\ \E answer \in RemoveAnswers :
       /\ storage' = IF answer = "ok"
                     THEN {o \in storage : o.path # dels[d].filePath}
                     ELSE storage
       /\ dels' = [dels EXCEPT ![d] =
            IF RemoveFailed(answer)
            THEN [@ EXCEPT !.removed = answer, !.pc = "done",
                           !.toast = [kind |-> "error",
                                      text |-> "Failed to delete scan"]]
            ELSE [@ EXCEPT !.removed = answer, !.pc = "delete"]]
  /\ UNCHANGED <<scans, loading>>
  /\ UNCHANGED <<clock, user, analyzing, result, runs, db, nextId>>
  /\ UNCHANGED <<uploadVars, cameraVars, returned>>

\* the record deletion has answered: check, setScans, toast
deleteReturn(d) ==
  /\ dels[d].pc = "delete"
  /\ \E error \in {NoError} \cup ErrorMessages :
       IF error # NoError
       THEN /\ dels' = [dels EXCEPT ![d] =
                 [@ EXCEPT !.deleted = "err", !.pc = "done",
                           !.toast = [kind |-> "error",
                                      text |-> "Failed to delete scan"]]]
            /\ UNCHANGED <<db, scans>>
       ELSE /\ db' = {x \in db : x.id # dels[d].scanId}
            /\ scans' = {x \in dels[d].scans : x.id # dels[d].scanId}
            /\ dels' = [dels EXCEPT ![d] =
                 [@ EXCEPT !.deleted = "ok", !.pc = "done",
                           !.toast = [kind |-> "success",
                                      text |-> "Scan deleted"]]]
  /\ UNCHANGED loading
  /\ UNCHANGED <<clock, user, analyzing, result, runs, storage, nextId>>
  /\ UNCHANGED <<uploadVars, cameraVars, returned>>

\* ------------------------------------------------------- the camera page
\* stream k has tracks that were not stopped
Active(k) == starts[k] \in {"granted", "resumed"} /\ stops[k] = 0

Unused == {k \in 1..MaxStarts : starts[k] = "none"}

\* navigator.mediaDevices.getUserMedia(...) is called: startCamera, up to
\* its await
RequestStream(k) ==
  /\ k \in Unused
  /\ \A j \in Unused : k <= j
  /\ starts' = [starts EXCEPT ![k] = "pending"]

\* stopCamera: `if (stream) { stream.getTracks().forEach(track => track.stop()) }`
StopCameraTracks(s, stopped) ==
  IF s # 0 THEN [stopped EXCEPT ![s] = @ + 1] ELSE stopped

\* an effect cleanup that stops nothing
StreamCleanupSkipped(s, stopped) == stopped

\* the cleanup of useEffect(..., [stream]), run when the stream state changes
\* and when the component unmounts, with the stream of the render it closes over
StreamCleanup(s, stopped) ==
  IF s # 0 THEN [stopped EXCEPT ![s] = @ + 1] ELSE stopped

\* click on "Start Camera" (rendered while !capturing && !capturedImage)
startCamera ==
  /\ mounted /\ ~capturing /\ capturedImage = NoImage
  /\ \E k \in Unused : RequestStream(k)
  /\ UNCHANGED <<mounted, stream, capturing, capturedImage, videoSrc, stops>>
  /\ UNCHANGED <<pipeVars, uploadVars>>
  /\ UNCHANGED <<returned, historyVars>>

\* click on "Scan Another Plant" (rendered while a result is shown)
ScanAnother ==
  /\ mounted /\ result["scan"] # NoData
  /\ capturedImage' = NoImage
  /\ result' = [result EXCEPT !["scan"] = NoData]
  /\ \E k \in Unused : RequestStream(k)
  /\ UNCHANGED <<mounted, stream, capturing, videoSrc, stops>>
  /\ UNCHANGED <<clock, user, analyzing, runs, storage, db, nextId>>
  /\ UNCHANGED uploadVars
  /\ UNCHANGED <<returned, historyVars>>

\* the browser opens the device for request k: the promise of getUserMedia
\* is fulfilled with a live stream
GetUserMediaGrant(k) ==
  /\ starts[k] = "pending"
  /\ starts' = [starts EXCEPT ![k] = "granted"]
  /\ UNCHANGED <<mounted, stream, capturing, capturedImage, videoSrc, stops>>
  /\ UNCHANGED <<pipeVars, uploadVars>>
  /\ UNCHANGED <<returned, historyVars>>

\* a startCamera whose setCapturing(true) is outside the try: it runs although
\* getUserMedia failed
GetUserMediaRejectThenCapturing(k) ==
  /\ starts[k] = "pending"
  /\ starts' = [starts EXCEPT ![k] = "failed"]
  /\ capturing' = mounted
  /\ UNCHANGED <<mounted, stream, capturedImage, videoSrc, stops>>
  /\ UNCHANGED <<pipeVars, uploadVars>>
  /\ UNCHANGED <<returned, historyVars>>

\* the device is denied or fails: startCamera's catch shows the error toast
GetUserMediaReject(k) ==
  /\ starts[k] = "pending"
  /\ starts' = [starts EXCEPT ![k] = "failed"]
  /\ UNCHANGED <<mounted, stream, capturing, capturedImage, videoSrc, stops>>
  /\ UNCHANGED <<pipeVars, uploadVars>>
  /\ UNCHANGED <<returned, historyVars>>

\* startCamera after its await: setStream, bind the <video> if there is one,
\* setCapturing(true); the re-render runs the cleanup for the stream replaced
startCameraResumed(k) ==
  /\ starts[k] = "granted"
  /\ starts' = [starts EXCEPT ![k] = "resumed"]
  /\ IF mounted
     THEN /\ stream' = k
          /\ videoSrc' = IF capturing THEN k ELSE 0
          /\ capturing' = TRUE
          /\ stops' = StreamCleanup(stream, stops)
     ELSE UNCHANGED <<stream, videoSrc, capturing, stops>>
  /\ UNCHANGED <<mounted, capturedImage>>
  /\ UNCHANGED <<pipeVars, uploadVars>>
  /\ UNCHANGED <<returned, historyVars>>

\* stopCamera() and the re-render it causes: the <video> goes away and the
\* effect cleanup runs for the stream that was replaced by null
stopCamera ==
  /\ stops' = (IF stream # 0
               THEN StreamCleanup(stream, StopCameraTracks(stream, stops))
               ELSE stops)
  /\ stream' = 0
  /\ capturing' = FALSE
  /\ videoSrc' = 0

\* a Cancel whose stopCamera also calls setCapturedImage(null)
CancelDiscardsImage ==
  /\ mounted /\ capturing
  /\ stopCamera
  /\ capturedImage' = NoImage
  /\ UNCHANGED <<mounted, starts>>
  /\ UNCHANGED <<pipeVars, uploadVars>>
  /\ UNCHANGED <<returned, historyVars>>

\* click on "Cancel" (rendered while capturing): stopCamera()
Cancel ==
  /\ mounted /\ capturing
  /\ stopCamera
  /\ UNCHANGED <<mounted, capturedImage, starts>>
  /\ UNCHANGED <<pipeVars, uploadVars>>
  /\ UNCHANGED <<returned, historyVars>>

\* canvas.toDataURL after drawImage(video): a frame of the stream the <video>
\* plays, an empty picture when the <video> has no source
Snapshot(src) == IF src # 0 THEN Frame(src) ELSE BlankImage

\* click on "Capture Photo" (rendered while capturing)
captureImage ==
  /\ mounted /\ capturing
  /\ capturedImage' = Snapshot(videoSrc)
  /\ stopCamera
  /\ UNCHANGED <<mounted, starts>>
  /\ UNCHANGED <<pipeVars, uploadVars>>
  /\ UNCHANGED <<returned, historyVars>>

\* click on "Retake" (rendered while capturedImage && !result)
Retake ==
  /\ mounted /\ capturedImage # NoImage /\ result["scan"] = NoData
  /\ capturedImage' = NoImage
  /\ result' = [result EXCEPT !["scan"] = NoData]
  /\ UNCHANGED <<mounted, stream, capturing, videoSrc, starts, stops>>
  /\ UNCHANGED <<clock, user, analyzing, runs, storage, db, nextId>>
  /\ UNCHANGED uploadVars
  /\ UNCHANGED <<returned, historyVars>>

\* the page is left (a navigate(...) of the header, or of the session
\* handlers when there is no session): React unmounts the component, runs
\* the effect cleanup and drops the component's state
Unmount ==
  /\ mounted
  /\ mounted' = FALSE
  /\ stops' = StreamCleanup(stream, stops)
  /\ stream' = 0
  /\ capturing' = FALSE
  /\ capturedImage' = NoImage
  /\ videoSrc' = 0
  /\ user' = [user EXCEPT !["scan"] = NoUser]
  /\ analyzing' = [analyzing EXCEPT !["scan"] = FALSE]
  /\ result' = [result EXCEPT !["scan"] = NoData]
  /\ UNCHANGED starts
  /\ UNCHANGED <<clock, runs, storage, db, nextId>>
  /\ UNCHANGED uploadVars
  /\ UNCHANGED <<returned, historyVars>>

\* ----------------------------------------------------- the specifications
\* an answer to an outstanding request of an analyze run
RunStep ==
  \/ \E r \in RunIds : FetchReturn(r)
  \/ \E r \in RunIds : UploadReturn(r)
  \/ \E r \in RunIds : InvokeReturn(r)
  \/ \E r \in RunIds : InsertReturn(r)

\* The camera page alone: the device-stream life cycle together with the
\* analyze runs the page starts.
NextCamera ==
  \/ \E u \in SessionUsers : SetUser("scan", u)
  \/ startCamera
  \/ ScanAnother
  \/ \E k \in 1..MaxStarts : GetUserMediaGrant(k)
  \/ \E k \in 1..MaxStarts : GetUserMediaReject(k)
  \/ \E k \in 1..MaxStarts : startCameraResumed(k)
  \/ Cancel
  \/ captureImage
  \/ Retake
  \/ Unmount
  \/ analyzeImage
  \/ RunStep

SpecCamera == Init /\ [][NextCamera]_vars

\* The camera page after "Start Camera", the grant of the device and
\* "Capture Photo": the first stream was stopped by stopCamera and by the
\* effect cleanup, and the picture taken is held.
Captured ==
  /\ mounted = TRUE
  /\ capturing = FALSE
  /\ stream = 0
  /\ videoSrc = 0
  /\ capturedImage = BlankImage
  /\ starts = [k \in 1..MaxStarts |-> IF k = 1 THEN "resumed" ELSE "none"]
  /\ stops = [k \in 1..MaxStarts |-> IF k = 1 THEN 2 ELSE 0]

InitPipeline ==
  /\ clock = 1
  /\ user = [p \in Pages |-> NoUser]
  /\ analyzing = [p \in Pages |-> FALSE]
  /\ result = [p \in Pages |-> NoData]
  /\ runs = <<>>
  /\ storage = {}
  /\ db = {}
  /\ nextId = 1
  /\ selectedFile = NoFile
  /\ previewUrl = 0
  /\ urlsCreated = 0
  /\ Captured
  /\ returned = [p \in Pages |-> FALSE]
  /\ scans = {}
  /\ loading = TRUE
  /\ dels = <<>>

\* The analyze pipeline driven from both pages: the camera page holds a
\* picture, the upload page chooses files; runs of the two pages interleave.
NextPipeline ==
  \/ \E page \in Pages, u \in SessionUsers : SetUser(page, u)
  \/ analyzeImage
  \/ handleAnalyze
  \/ RunStep
  \/ \E file \in Files : handleFileSelect(file)
  \/ AnalyzeAnother
  \/ Retake
  \/ Unmount

SpecPipeline == InitPipeline /\ [][NextPipeline]_vars

\* The history page together with the analyze runs of the upload page that
\* create what it lists: loads of the list and deletions interleave with runs.
NextHistory ==
  \/ \E u \in SessionUsers : SetUser("upload", u)
  \/ \E file \in Files : handleFileSelect(file)
  \/ handleAnalyze
  \/ \E r \in RunIds : UploadReturn(r)
  \/ \E r \in RunIds : InvokeReturn(r)
  \/ \E r \in RunIds : InsertReturn(r)
  \/ \E u \in SessionUsers : loadScans(u)
  \/ \E scan \in scans : deleteScan(scan)
  \/ \E d \in DelIds : removeReturn(d)
  \/ \E d \in DelIds : deleteReturn(d)

SpecHistory == Init /\ [][NextHistory]_vars

\* The analyze pipeline while the session changes identity: the handlers of
\* onAuthStateChange set the user of a page between the stages of its runs.
NextIdentity ==
  \/ \E page \in Pages, u \in Users : SetUser(page, u)
  \/ analyzeImage
  \/ handleAnalyze
  \/ RunStep
  \/ \E file \in Files : handleFileSelect(file)

SpecIdentity == InitPipeline /\ [][NextIdentity]_vars

\* the request run r waits for is answered
Answer(r) ==
  /\ r \in RunIds
  /\ (FetchReturn(r) \/ UploadReturn(r) \/ InvokeReturn(r) \/ InsertReturn(r))

\* The pipeline when every request is answered in the end, with a success
\* or an error: each await of a run is resumed.
SpecPipelineFair ==
  SpecPipeline /\ \A r \in 1..MaxRuns : WF_vars(Answer(r))

\* the picture-held state SpecPipeline starts in is a state of the camera page
NotCaptured == ~(Captured /\ runs = <<>> /\ user["scan"] = NoUser)

\* ============================================================ the claims
\* ------------------------------------------------- what a run has done
Done(r) == runs[r].pc = "done"
Succeeded(r) == runs[r].toast.kind = "success"
Failed(r) == runs[r].toast.kind = "error"
UploadedBy(r) == {o \in storage : o.by = r}
InsertedBy(r) == {x \in db : x.run = r}

\* C1: a run that reports success has uploaded exactly one object and
\* inserted exactly one record, and the record's image_url is the public URL
\* of that object's path, which is also the URL the analysis function was given.
C1_SuccessOneObjectOneRecord ==
  \A r \in RunIds :
    Succeeded(r) =>
      /\ Cardinality(UploadedBy(r)) = 1
      /\ Cardinality(InsertedBy(r)) = 1
      /\ runs[r].nUpload = 1
      /\ runs[r].nInsert = 1
      /\ \A o \in UploadedBy(r), x \in InsertedBy(r) :
           /\ x.row.image_url = getPublicUrl(o.path)
           /\ x.row.image_url = runs[r].imageUrl

\* a run of each page has reported success
C1_Witness ==
  \E r1, r2 \in RunIds :
    /\ runs[r1].page = "scan" /\ runs[r2].page = "upload"
    /\ Succeeded(r1) /\ Succeeded(r2)

\* C2: in every state a record of a run is in the store exactly if the
\* run's upload, its analysis and its insert have all answered without error.
C2_RecordIffAllStagesOk ==
  \A r \in RunIds :
    (InsertedBy(r) # {}) <=>
      (runs[r].upload = "ok" /\ runs[r].invoke = "ok" /\ runs[r].insert = "ok")

\* one run has its record while another one, whose analysis failed, has none
C2_Witness ==
  \E r1, r2 \in RunIds :
    /\ InsertedBy(r1) # {}
    /\ runs[r2].upload = "ok" /\ runs[r2].invoke = "err" /\ InsertedBy(r2) = {}

\* C3: a run whose upload succeeded and whose analysis answered an error has
\* ended in failure, has issued no insert and has no record, and the object it
\* uploaded is still in storage.
C3_AnalysisErrorKeepsUpload ==
  \A r \in RunIds :
    (runs[r].upload = "ok" /\ runs[r].invoke = "err") =>
      /\ Done(r) /\ Failed(r)
      /\ runs[r].nInsert = 0
      /\ InsertedBy(r) = {}
      /\ \E o \in storage : o.by = r /\ o.path = runs[r].fileName /\ o.img = runs[r].img

\* the analysis of a run answered an error after the run's upload succeeded
C3_Witness ==
  \E r \in RunIds :
    /\ runs[r].upload = "ok" /\ runs[r].invoke = "err" /\ Done(r)
    /\ UploadedBy(r) # {}

\* the step in which run r takes the answer of stage st, an error
AnswersError(r, st) ==
  /\ r \in RunIds
  /\ runs[r][st] = "sent"
  /\ runs'[r][st] = "err"

\* C4: a run whose upload answered an error has ended in failure without
\* invoking the analysis function and without inserting a record, and the step
\* that takes the error leaves the displayed results as they were.
C4_UploadErrorAborts ==
  /\ [](\A r \in RunIds :
          runs[r].upload = "err" =>
            /\ Done(r) /\ Failed(r)
            /\ runs[r].nInvoke = 0 /\ runs[r].nInsert = 0
            /\ InsertedBy(r) = {}
            /\ ~runs[r].setResult)
  /\ [][\A r \in RunIds : AnswersError(r, "upload") => result' = result]_vars

\* the upload of a run answered an error while a result is on display
C4_Witness ==
  \E r \in RunIds, page \in Pages :
    /\ runs[r].upload = "err" /\ Done(r)
    /\ result[page] # NoData

\* C5: a run whose insert answered an error (after upload and analysis
\* succeeded) is reported as a failure: no success toast, and the step that
\* takes the error does not set the displayed result.
C5_InsertErrorIsFailure ==
  /\ [](\A r \in RunIds :
          runs[r].insert = "err" =>
            /\ runs[r].upload = "ok" /\ runs[r].invoke = "ok"
            /\ Done(r) /\ Failed(r) /\ ~Succeeded(r)
            /\ ~runs[r].setResult)
  /\ [][\A r \in RunIds : AnswersError(r, "insert") => result' = result]_vars

\* the insert of a run answered an error
C5_Witness ==
  \E r \in RunIds : runs[r].insert = "err" /\ Done(r) /\ UploadedBy(r) # {}

\* the stage at which a failed run stopped
FailedStage(r) ==
  IF runs[r].upload = "err" THEN "UploadFailed"
  ELSE IF runs[r].insert = "err" THEN "PersistFailed"
  ELSE IF runs[r].invoke \in {"ok", "err"} THEN "AnalysisFailed"
  ELSE "other"

Stages == {"UploadFailed", "AnalysisFailed", "PersistFailed"}

\* C6: the outcome reported for a failed run tells the stage that failed:
\* two runs that failed at different stages are reported differently.
C6_OutcomeTellsStage ==
  \A r1, r2 \in RunIds :
    ( /\ Failed(r1) /\ Failed(r2)
      /\ FailedStage(r1) \in Stages /\ FailedStage(r2) \in Stages
      /\ FailedStage(r1) # FailedStage(r2) )
    => runs[r1].toast # runs[r2].toast

\* C7: the stages of a run are sequential and fail-fast: the function is
\* invoked only after the run's upload answered success, the insert is issued
\* only after the run's analysis answered success, and each of upload, invoke
\* and insert is attempted at most once.
C7_SequentialFailFast ==
  \A r \in RunIds :
    /\ runs[r].nUpload <= 1 /\ runs[r].nInvoke <= 1 /\ runs[r].nInsert <= 1
    /\ (runs[r].nInvoke > 0 => runs[r].upload = "ok")
    /\ (runs[r].nInsert > 0 => (runs[r].upload = "ok" /\ runs[r].invoke = "ok"))

\* a run is waiting for its insert while another one stopped at its analysis
C7_Witness ==
  \E r1, r2 \in RunIds :
    /\ runs[r1].pc = "insert" /\ runs[r1].nInsert = 1
    /\ runs[r2].invoke = "err" /\ runs[r2].nInsert = 0

\* ------------------------------------------------------ the device streams
ActiveStreams == {k \in 1..MaxStarts : Active(k)}

\* requests of startCamera that are still awaiting getUserMedia, or that the
\* browser has answered while startCamera has not yet resumed
Awaiting == {k \in 1..MaxStarts : starts[k] \in {"pending", "granted"}}

\* C8: in every state of the camera page at most one stream acquired by the
\* page has tracks that are not stopped.
C8_AtMostOneActiveStream == Cardinality(ActiveStreams) <= 1

\* C9: stream acquisition is serialized: getUserMedia is never called while
\* the page is Capturing or while an earlier call is still awaited.
C9_StartSerialized ==
  [][\A k \in 1..MaxStarts :
       (starts[k] = "none" /\ starts'[k] = "pending") =>
         (~capturing /\ Awaiting = {})]_vars

\* C10: whenever the camera page leaves Capturing (Cancel, Capture Photo, or
\* the unmount of the page), the stream the page held, live until then, has
\* all its tracks stopped after the step.
C10_LeavingCapturingStopsStream ==
  [][(mounted /\ capturing /\ ~(mounted' /\ capturing')) =>
       \E s \in 1..MaxStarts :
         /\ s = stream
         /\ Active(s)
         /\ ~Active(s)']_vars

\* the page was unmounted while Capturing: its stream was stopped by the
\* effect cleanup alone
C10_Witness ==
  /\ ~mounted
  /\ \E k \in 1..MaxStarts : starts[k] = "resumed" /\ stops[k] = 1

\* C11: no device stream leaks: once the page is torn down and no request of
\* startCamera is outstanding any more, no stream the page acquired has live
\* tracks.
C11_NoStreamLeak ==
  (~mounted /\ Awaiting = {}) => ActiveStreams = {}

\* the step in which startCamera's call k of getUserMedia fails
StartFails(k) == starts[k] = "pending" /\ starts'[k] = "failed"

\* C12: when getUserMedia is denied or fails, the failure is signalled and
\* the page's capturing flag, stream and captured image are left as they were:
\* a page that was Idle is still Idle.
C12_FailedStartStaysIdle ==
  [][\A k \in 1..MaxStarts :
       StartFails(k) =>
         /\ capturing' = capturing
         /\ stream' = stream
         /\ capturedImage' = capturedImage
         /\ ((~capturing /\ stream = 0) => (~capturing' /\ stream' = 0))]_vars

\* a start failed while the page was Idle, and a later start succeeded
C12_Witness ==
  \E k, j \in 1..MaxStarts :
    /\ k < j
    /\ starts[k] = "failed" /\ starts[j] = "resumed"
    /\ mounted /\ capturing /\ stream = j /\ Active(j)

\* the state of the capture state machine the page is in
PageState ==
  IF ~mounted THEN "gone"
  ELSE IF capturing /\ capturedImage = NoImage /\ stream # 0 /\ Active(stream)
       THEN "Capturing"
  ELSE IF ~capturing /\ capturedImage = NoImage THEN "Idle"
  ELSE IF ~capturing /\ capturedImage # NoImage THEN "Captured"
  ELSE "none"

Transitions ==
  { <<"Idle", "Capturing">>, <<"Capturing", "Captured">>, <<"Captured", "Idle">>,
    <<"Captured", "Capturing">>, <<"Capturing", "Idle">> }

\* C13: the page is always in exactly one of Idle, Capturing and Captured, and
\* it moves between them only by Idle -> Capturing -> Captured -> Idle or
\* Capturing, and Capturing -> Idle.
C13_StateMachine ==
  /\ [](PageState # "none")
  /\ [][ \/ PageState' = PageState
         \/ PageState' = "gone"
         \/ <<PageState, PageState'>> \in Transitions ]_vars

\* C18: the tracks of a stream are stopped once only: no stream is stopped a
\* second time by stopCamera, captureImage or the stream cleanup effect.
C18_ReleasedOnce ==
  \A k \in 1..MaxStarts : stops[k] <= 1

\* C19: while the page is Capturing, the stream it holds is the source of the
\* rendered video element, so a captured frame comes from the live stream.
C19_StreamBoundToVideo ==
  (mounted /\ capturing /\ stream # 0) => videoSrc = stream

Malformed(r) == runs[r].invoke = "ok" /\ runs[r].data.kind # "full"

\* C16: a run whose analysis answer is malformed aborts: it performs no
\* insert, leaves no record and does not report success.
C16_MalformedResponseAborts ==
  \A r \in RunIds :
    Malformed(r) =>
      /\ runs[r].nInsert = 0
      /\ InsertedBy(r) = {}
      /\ ~Succeeded(r)

\* C17: at most one object URL created by the upload page is live, the one
\* of the file that is selected.
C17_OneLivePreview ==
  LiveUrls \subseteq {previewUrl}

\* the step in which the analyze handler of a page returns at its first line
PreconditionReturn(page) == ~returned[page] /\ returned'[page]

\* the step in which a run of a page is started
RunStarted(page) ==
  Len(runs') = Len(runs) + 1 /\ runs'[Len(runs')].page = page

\* the image a page holds for analysis is missing
NoImageHeld(page) ==
  IF page = "scan" THEN capturedImage = NoImage ELSE selectedFile = NoFile

\* C20: analyze invoked without an image or without an identity returns at
\* once: no run is started (so no upload, invocation or insert is made), and
\* analyzing and the displayed result are left unchanged; every run that was
\* started has an identity and an image.
C20_PreconditionFailure ==
  /\ [](\A r \in RunIds : runs[r].uid # NoUser /\ runs[r].img # NoImage)
  /\ [][\A page \in Pages :
          /\ PreconditionReturn(page) =>
               /\ NoImageHeld(page) \/ user[page] = NoUser
               /\ runs' = runs /\ storage' = storage /\ db' = db
               /\ analyzing' = analyzing /\ result' = result
          /\ RunStarted(page) =>
               ~NoImageHeld(page) /\ user[page] # NoUser]_vars

\* on both pages Analyze was clicked before the session had set the user
C20_Witness ==
  /\ returned["scan"] /\ user["scan"] = NoUser /\ capturedImage # NoImage
  /\ returned["upload"] /\ user["upload"] = NoUser /\ selectedFile # NoFile
  /\ runs = <<>> /\ storage = {} /\ db = {}
  /\ ~analyzing["scan"] /\ ~analyzing["upload"]

\* the objects of storage a record's image_url refers to
ImageOf(x) == {o \in storage : getPublicUrl(o.path) = x.row.image_url}

\* C14: a record never outlives its image: once every call of deleteScan has
\* finished, whether its storage removal or its record deletion failed or not,
\* every record of the record store refers to an image that is present in
\* object storage.
C14_RecordNeverOutlivesImage ==
  (\A d \in DelIds : dels[d].pc = "done") => \A x \in db : ImageOf(x) # {}

\* C21: the identity of a run does not change: the user_id of the record a
\* run inserted is the identity prefix of the path it uploaded to, also when
\* the page's user changed between the stages.
C21_IdentityFixedForRun ==
  \A r \in RunIds :
    \A x \in InsertedBy(r) :
      /\ x.row.user_id = runs[r].fileName[1]
      /\ \A o \in UploadedBy(r) : x.row.user_id = o.path[1]

\* a run inserted its record after the page's user had changed to another
\* identity
C21_Witness ==
  \E r \in RunIds :
    /\ InsertedBy(r) # {} /\ UploadedBy(r) # {}
    /\ user[runs[r].page] \in Users
    /\ user[runs[r].page] # runs[r].uid

\* the step in which stopCamera() runs on the mounted page: Cancel, or the
\* last call of captureImage
Stopped == mounted /\ mounted' /\ capturing /\ ~capturing'

\* C22: stopCamera changes only the stream and the capturing flag: the stream
\* is released and the page is not capturing, the displayed result and the
\* analyzing flag are unchanged, and a held image is not discarded (the image
\* is the one held before, or the frame captureImage took before stopping).
C22_StopFrame ==
  [][Stopped =>
       /\ stream' = 0
       /\ (stream # 0 => stops'[stream] > stops[stream])
       /\ result' = result
       /\ analyzing' = analyzing
       /\ capturedImage' \in {capturedImage, Snapshot(videoSrc)}]_vars

\* stopCamera has run while an image was held and its analysis was in flight:
\* both streams are released, the image and the analyzing flag are still there
C22_Witness ==
  /\ mounted /\ ~capturing /\ stream = 0
  /\ capturedImage # NoImage
  /\ analyzing["scan"]
  /\ \A k \in 1..2 : starts[k] = "resumed" /\ stops[k] >= 1

\* the image a page holds
HeldImage(page) == IF page = "scan" THEN capturedImage ELSE selectedFile.img

\* C23: a displayed result belongs to the image the page holds: the page
\* holds an image and the result was produced by the run that analysed it.
C23_ResultOfHeldImage ==
  \A page \in Pages :
    result[page] # NoData =>
      /\ HeldImage(page) # NoImage
      /\ runs[result[page].of].img = HeldImage(page)

\* the runs of a page that have not finished
InFlight(page) == {r \in RunIds : runs[r].page = page /\ runs[r].pc # "done"}

\* C24: a page has at most one analyze run in flight, and no run is started
\* from a page while its analyzing flag is true.
C24_OneRunInFlight ==
  /\ [](\A page \in Pages : Cardinality(InFlight(page)) <= 1)
  /\ [][\A page \in Pages : analyzing[page] => ~RunStarted(page)]_vars

\* during the one run of each page the user clicked on: Retake on the camera
\* page, another file on the upload page
C24_Witness ==
  /\ \E r \in InFlight("scan") : analyzing["scan"] /\ capturedImage = NoImage
  /\ \E r \in InFlight("upload") :
       /\ analyzing["upload"]
       /\ selectedFile.img # runs[r].img

\* the step in which run r finishes
Finishes(r) == r \in RunIds /\ runs[r].pc # "done" /\ runs'[r].pc = "done"

\* C25: every run that set the analyzing flag clears it: when every request
\* is answered, each run finishes, on each path with analyzing false, a flag
\* that is true becomes false, and the flag is true only while a run of the
\* page is in flight.
C25_AnalyzingCleared ==
  /\ [](\A page \in Pages : analyzing[page] => InFlight(page) # {})
  /\ [][\A r \in 1..MaxRuns : Finishes(r) => ~analyzing'[runs[r].page]]_vars
  /\ \A page \in Pages : analyzing[page] ~> ~analyzing[page]
  /\ \A r \in 1..MaxRuns :
       (r \in RunIds /\ runs[r].pc # "done") ~> (r \in RunIds /\ runs[r].pc = "done")

\* a run that failed and a run that succeeded have finished, and no
\* analyzing flag is left true
C25_Witness ==
  /\ \E r1, r2 \in RunIds :
       /\ Done(r1) /\ Failed(r1) /\ runs[r1].nUpload = 1
       /\ Done(r2) /\ Succeeded(r2)
  /\ \A page \in Pages : ~analyzing[page]

\* C26: once every call of deleteScan has finished, the displayed list holds
\* no scan whose deletion succeeded.
C26_DeletedNotListed ==
  (\A d \in DelIds : dels[d].pc = "done") =>
    \A d \in DelIds :
      dels[d].deleted = "ok" => \A x \in scans : x.id # dels[d].scanId

====
